---------------------------- MODULE Spec2Model ----------------------------
(***************************************************************************)
(* Model of forest_version/11_Kernel_Methods.ipynb: a distance-based       *)
(* classifier on a four-qubit interference circuit (pyQuil / Forest).      *)
(*                                                                         *)
(* Two specifications are given.  Spec runs the notebook's code cells in   *)
(* order, as "Run All" does, with the data the notebook defines.  UnitSpec *)
(* applies the notebook's functions (get_angle, prepare_state,             *)
(* interfere_data_and_test_instances, postselect) to inputs drawn from     *)
(* bounded sets.                                                           *)
(*                                                                         *)
(* Numbers.  Real amplitudes are held in fixed point with Scale units per  *)
(* 1.0.  An angle theta = 2*arccos(a) is held as the point                 *)
(* (cos(theta/2), sin(theta/2)); arccos ranges over [0, pi], so the sine   *)
(* is the non-negative root of 1 - a^2 and the point determines theta.     *)
(* A wavefunction is held unnormalised: the amplitude of basis state b is  *)
(* amp[b] / (Scale * sqrt(2)^hcount), hcount being the number of Hadamard  *)
(* gates applied.                                                          *)
(***************************************************************************)
EXTENDS Integers, Sequences, FiniteSets, TLC

(***************************************************************************)
(* Bounds of the model.                                                    *)
(***************************************************************************)
\* Shots per run.  The notebook asks for 1024 (wrap_in_numshots_loop(1024));
\* the model runs the same cells with this many shots.
Shots == 3
\* UnitSpec: most outcome strings in a mapping given to postselect.
MaxKeys == 3
\* UnitSpec: largest count of one outcome string.
MaxCount == 2
\* UnitSpec: most calls of interfere_data_and_test_instances on one circuit.
MaxCalls == 2

\* Fixed-point units per 1.0.
Scale == 10 * 1000

(***************************************************************************)
(* Arithmetic helpers.                                                     *)
(***************************************************************************)
Abs(n) == IF n < 0 THEN -n ELSE n

\* n / d rounded to the nearest integer (d > 0).
RoundDiv(n, d) == (2 * n + d) \div (2 * d)

RECURSIVE SqrtBisect(_, _, _)
\* The largest r in lo..hi with r * r <= n.
SqrtBisect(n, lo, hi) ==
    IF lo >= hi THEN lo
    ELSE LET mid == (lo + hi + 1) \div 2
         IN  IF mid * mid <= n THEN SqrtBisect(n, mid, hi)
             ELSE SqrtBisect(n, lo, mid - 1)

\* sqrt(n) rounded to the nearest integer, 0 <= n <= Scale^2.
ISqrt(n) ==
    LET r == SqrtBisect(n, 0, Scale)
    IN  IF n - r * r > r THEN r + 1 ELSE r

RECURSIVE SumSeq(_)
SumSeq(s) == IF s = << >> THEN 0 ELSE Head(s) + SumSeq(Tail(s))

(***************************************************************************)
(* The notebook's data (fixed point).                                      *)
(***************************************************************************)
training_set == << <<0, Scale>>, <<7886, 6149>> >>
labels == <<0, 1>>
test_set == << <<-5490, 8360>>, <<530, 9990>> >>

(***************************************************************************)
(* Angle encoder.                                                          *)
(***************************************************************************)
\* An angle: the point (cos(theta/2), sin(theta/2)) in fixed point, or nan.
Angle(c, s) == [nan |-> FALSE, cos_half |-> c, sin_half |-> s]
NaN == [nan |-> TRUE, cos_half |-> 0, sin_half |-> 0]

\* np.arccos is defined on [-1, 1].
InDomain(amplitude_0) == -Scale <= amplitude_0 /\ amplitude_0 <= Scale

\* 2*np.arccos(amplitude_0).  Outside [-1, 1] np.arccos returns nan (with a
\* RuntimeWarning, which is not an exception); nothing is raised.
get_angle(amplitude_0) ==
    IF InDomain(amplitude_0)
    THEN Angle(amplitude_0, ISqrt(Scale * Scale - amplitude_0 * amplitude_0))
    ELSE NaN

(***************************************************************************)
(* Quil programs.  A Program holds its gate definitions apart from its     *)
(* instruction list, and the shot count set by wrap_in_numshots_loop.      *)
(***************************************************************************)
Gate(name, params, qubits) ==
    [op |-> name, params |-> params, qubits |-> qubits, ro |-> -1]

H(q) == Gate("H", << >>, <<q>>)
X(q) == Gate("X", << >>, <<q>>)
CNOT(c, t) == Gate("CNOT", << >>, <<c, t>>)
CCNOT(c1, c2, t) == Gate("CCNOT", << >>, <<c1, c2, t>>)
CRY(theta, c, t) == Gate("CRY", <<theta>>, <<c, t>>)
CCRY(alpha, c1, c2, t) == Gate("CCRY", <<alpha>>, <<c1, c2, t>>)
\* MEASURE(q, ro[k])
MEASURE(q, k) == [op |-> "MEASURE", params |-> << >>, qubits |-> <<q>>, ro |-> k]
\* DECLARE ro BIT[size]
DECLARE(size) == [op |-> "DECLARE", params |-> << >>, qubits |-> << >>, ro |-> size]

Program ==
    [defined_gates |-> << >>, instructions |-> << >>, num_shots |-> 1]

AddDefGate(p, name) ==
    [p EXCEPT !.defined_gates = Append(@, name)]

Inst(p, instr) ==
    [p EXCEPT !.instructions = Append(@, instr)]

(***************************************************************************)
(* State preparation.                                                      *)
(***************************************************************************)
ancilla_qubit == 0
index_qubit == 1
data_qubit == 2
class_qubit == 3

\* A slip: the ancilla flip after the test vector is left out.
prepare_state_no_flip(angles) ==
    LET c0 == AddDefGate(AddDefGate(Program, "CRY"), "CCRY")
        c1 == Inst(c0, H(ancilla_qubit))
        c2 == Inst(c1, H(index_qubit))
        c3 == Inst(c2, CRY(angles[1], ancilla_qubit, data_qubit))
        c5 == Inst(c3, CCNOT(ancilla_qubit, index_qubit, data_qubit))
        c6 == Inst(c5, X(index_qubit))
        c7 == Inst(c6, CCRY(angles[2], ancilla_qubit, index_qubit, data_qubit))
        c8 == Inst(c7, CNOT(index_qubit, class_qubit))
    IN  c8

\* A slip: the two angles are used the wrong way round.
prepare_state_swapped(angles) ==
    LET c0 == AddDefGate(AddDefGate(Program, "CRY"), "CCRY")
        c1 == Inst(c0, H(ancilla_qubit))
        c2 == Inst(c1, H(index_qubit))
        c3 == Inst(c2, CRY(angles[2], ancilla_qubit, data_qubit))
        c4 == Inst(c3, X(ancilla_qubit))
        c5 == Inst(c4, CCNOT(ancilla_qubit, index_qubit, data_qubit))
        c6 == Inst(c5, X(index_qubit))
        c7 == Inst(c6, CCRY(angles[1], ancilla_qubit, index_qubit, data_qubit))
        c8 == Inst(c7, CNOT(index_qubit, class_qubit))
    IN  c8

\* A slip: the class qubit is flipped on the data qubit, not the index qubit.
prepare_state_class_from_data(angles) ==
    LET c0 == AddDefGate(AddDefGate(Program, "CRY"), "CCRY")
        c1 == Inst(c0, H(ancilla_qubit))
        c2 == Inst(c1, H(index_qubit))
        c3 == Inst(c2, CRY(angles[1], ancilla_qubit, data_qubit))
        c4 == Inst(c3, X(ancilla_qubit))
        c5 == Inst(c4, CCNOT(ancilla_qubit, index_qubit, data_qubit))
        c6 == Inst(c5, X(index_qubit))
        c7 == Inst(c6, CCRY(angles[2], ancilla_qubit, index_qubit, data_qubit))
        c8 == Inst(c7, CNOT(data_qubit, class_qubit))
    IN  c8

\* angles[1] is the notebook's angles[0] (test vector), angles[2] its
\* angles[1] (second training vector).
prepare_state(angles) ==
    LET c0 == AddDefGate(AddDefGate(Program, "CRY"), "CCRY")
        c1 == Inst(c0, H(ancilla_qubit))
        c2 == Inst(c1, H(index_qubit))
        c3 == Inst(c2, CRY(angles[1], ancilla_qubit, data_qubit))
        c4 == Inst(c3, X(ancilla_qubit))
        c5 == Inst(c4, CCNOT(ancilla_qubit, index_qubit, data_qubit))
        c6 == Inst(c5, X(index_qubit))
        c7 == Inst(c6, CCRY(angles[2], ancilla_qubit, index_qubit, data_qubit))
        c8 == Inst(c7, CNOT(index_qubit, class_qubit))
    IN  c8

(***************************************************************************)
(* Gate semantics on the four-qubit register.  A basis state is the tuple  *)
(* of the values of qubits 0..3 (qubit q at position q + 1).               *)
(***************************************************************************)
Basis == [1 .. 4 -> {0, 1}]

SetBit(b, q, v) == [b EXCEPT ![q + 1] = v]

\* The matrices of the notebook's DefGates, in fixed point.
cry(theta) ==
    << <<Scale, 0, 0, 0>>,
       <<0, Scale, 0, 0>>,
       <<0, 0, theta.cos_half, -theta.sin_half>>,
       <<0, 0, theta.sin_half, theta.cos_half>> >>

ccry(alpha) ==
    << <<Scale, 0, 0, 0, 0, 0, 0, 0>>,
       <<0, Scale, 0, 0, 0, 0, 0, 0>>,
       <<0, 0, Scale, 0, 0, 0, 0, 0>>,
       <<0, 0, 0, Scale, 0, 0, 0, 0>>,
       <<0, 0, 0, 0, Scale, 0, 0, 0>>,
       <<0, 0, 0, 0, 0, Scale, 0, 0>>,
       <<0, 0, 0, 0, 0, 0, alpha.cos_half, -alpha.sin_half>>,
       <<0, 0, 0, 0, 0, 0, alpha.sin_half, alpha.cos_half>> >>

Pow2(n) == IF n = 0 THEN 1 ELSE IF n = 1 THEN 2 ELSE IF n = 2 THEN 4 ELSE 8

\* Row/column index of basis state b in a gate matrix on qubits qs: the
\* first qubit of the gate is the most significant bit.
MatIndex(b, qs) ==
    SumSeq([i \in 1 .. Len(qs) |-> b[qs[i] + 1] * Pow2(Len(qs) - i)])

\* b with the qubits qs set to the bits of column index j.
WithIndex(b, qs, j) ==
    [p \in 1 .. 4 |->
        IF \E i \in 1 .. Len(qs) : qs[i] + 1 = p
        THEN LET i == CHOOSE i \in 1 .. Len(qs) : qs[i] + 1 = p
             IN  (j \div Pow2(Len(qs) - i)) % 2
        ELSE b[p]]

\* A user-defined gate: the matrix m (fixed point) applied on qubits qs.
ApplyMatrix(amp, m, qs) ==
    [b \in Basis |->
        RoundDiv(SumSeq([j \in 1 .. Len(m) |->
                           m[MatIndex(b, qs) + 1][j] * amp[WithIndex(b, qs, j - 1)]]),
                 Scale)]

\* One instruction applied to a wavefunction.  DECLARE and MEASURE leave
\* the amplitudes alone (every measurement comes after the last gate).
ApplyInstr(w, g) ==
    LET amp == w.amp
        q1 == IF Len(g.qubits) >= 1 THEN g.qubits[1] ELSE 0
        q2 == IF Len(g.qubits) >= 2 THEN g.qubits[2] ELSE 0
        q3 == IF Len(g.qubits) >= 3 THEN g.qubits[3] ELSE 0
    IN  CASE g.op = "H" ->
               [amp |-> [b \in Basis |->
                           IF b[q1 + 1] = 0
                           THEN amp[b] + amp[SetBit(b, q1, 1)]
                           ELSE amp[SetBit(b, q1, 0)] - amp[b]],
                hcount |-> w.hcount + 1]
          [] g.op = "X" ->
               [w EXCEPT !.amp = [b \in Basis |-> amp[SetBit(b, q1, 1 - b[q1 + 1])]]]
          [] g.op = "CNOT" ->
               [w EXCEPT !.amp = [b \in Basis |->
                           IF b[q1 + 1] = 1
                           THEN amp[SetBit(b, q2, 1 - b[q2 + 1])]
                           ELSE amp[b]]]
          [] g.op = "CCNOT" ->
               [w EXCEPT !.amp = [b \in Basis |->
                           IF b[q1 + 1] = 1 /\ b[q2 + 1] = 1
                           THEN amp[SetBit(b, q3, 1 - b[q3 + 1])]
                           ELSE amp[b]]]
          [] g.op = "CRY" ->
               [w EXCEPT !.amp = ApplyMatrix(amp, cry(g.params[1]), g.qubits)]
          [] g.op = "CCRY" ->
               [w EXCEPT !.amp = ApplyMatrix(amp, ccry(g.params[1]), g.qubits)]
          [] OTHER -> w

\* |0000>
GroundState ==
    [amp |-> [b \in Basis |-> IF b = <<0, 0, 0, 0>> THEN Scale ELSE 0],
     hcount |-> 0]

RECURSIVE ApplyAll(_, _)
\* The test w = w makes TLC tabulate the amplitudes after every gate.
ApplyAll(w, instrs) ==
    IF instrs = << >> \/ w # w THEN w
    ELSE ApplyAll(ApplyInstr(w, Head(instrs)), Tail(instrs))

\* The state a program leaves the register in just before measurement.
Wavefunction(p) == ApplyAll(GroundState, p.instructions)

\* The basis states a measurement of all qubits can yield.
Support(w) == {b \in Basis : w.amp[b] # 0}

(***************************************************************************)
(* Interference stage.                                                     *)
(***************************************************************************)
RECURSIVE MeasureAllReversed(_, _, _)
\* A slip: qubit q is read into ro[n - 1 - q].
MeasureAllReversed(circuit, q, n) ==
    IF q >= n THEN circuit
    ELSE MeasureAllReversed(Inst(circuit, MEASURE(q, n - 1 - q)), q + 1, n)

RECURSIVE MeasureAll(_, _, _)
\* for q in range(n): circuit += MEASURE(q, ro[q]), from q on.
MeasureAll(circuit, q, n) ==
    IF q >= n THEN circuit
    ELSE MeasureAll(Inst(circuit, MEASURE(q, q)), q + 1, n)

\* A slip: the Hadamard on the ancilla is left out.
interfere_without_hadamard(circuit, angles) ==
    MeasureAll(Inst(circuit, DECLARE(4)), 0, 4)

\* A slip: the stage is guarded, a circuit that already holds a measurement
\* is returned as it is.
interfere_guarded(circuit, angles) ==
    IF \E i \in 1 .. Len(circuit.instructions) :
           circuit.instructions[i].op = "MEASURE"
    THEN circuit
    ELSE MeasureAll(Inst(Inst(circuit, DECLARE(4)), H(0)), 0, 4)

\* The program the circuit object holds when the call returns.  The call
\* works on the object it is given (declare and += act in place) and
\* returns that same object.
interfere_data_and_test_instances(circuit, angles) ==
    LET c1 == Inst(circuit, DECLARE(4))
        c2 == Inst(c1, H(0))
    IN  MeasureAll(c2, 0, 4)

wrap_in_numshots_loop(p, shots) == [p EXCEPT !.num_shots = shots]

(***************************************************************************)
(* Execution: one shot collapses the register to a basis state b of the    *)
(* support; each MEASURE(q, ro[k]) copies qubit q of b into ro[k].         *)
(***************************************************************************)
RECURSIVE ReadoutFrom(_, _, _)
ReadoutFrom(ro, instrs, b) ==
    IF instrs = << >> THEN ro
    ELSE LET g == Head(instrs)
         IN  ReadoutFrom(IF g.op = "MEASURE"
                         THEN [ro EXCEPT ![g.ro + 1] = b[g.qubits[1] + 1]]
                         ELSE ro,
                         Tail(instrs), b)

\* The declared size of ro (0 when the program declares none).
RoSize(p) ==
    LET ds == {i \in 1 .. Len(p.instructions) : p.instructions[i].op = "DECLARE"}
    IN  IF ds = {} THEN 0
        ELSE p.instructions[CHOOSE i \in ds : \A j \in ds : j <= i].ro

\* The row of classical bits one shot returns.
Readout(p, b) ==
    ReadoutFrom([k \in 1 .. RoSize(p) |-> 0], p.instructions, b)

(***************************************************************************)
(* Counting the shots: np.unique(measures, return_counts=True, axis=0),    *)
(* each row turned into a string, zipped into a dict.  The counts are      *)
(* numpy integers.                                                         *)
(***************************************************************************)
Str(bit) == IF bit = 0 THEN "0" ELSE "1"

\* ''.join(map(str, l)): a string is held as the sequence of its characters.
RowString(l) == [i \in 1 .. Len(l) |-> Str(l[i])]

Occurrences(measures, row) ==
    Cardinality({s \in 1 .. Len(measures) : measures[s] = row})

\* A slip: every distinct row is counted once.
CountRowsOnce(measures) ==
    LET rows == {measures[s] : s \in 1 .. Len(measures)}
        keys == {RowString(r) : r \in rows}
    IN  [ctype |-> "int64", counts |-> [k \in keys |-> 1]]

CountRows(measures) ==
    LET rows == {measures[s] : s \in 1 .. Len(measures)}
        keys == {RowString(r) : r \in rows}
    IN  [ctype |-> "int64",
         counts |-> [k \in keys |->
                       Occurrences(measures, CHOOSE r \in rows : RowString(r) = k)]]

(***************************************************************************)
(* Python / numpy arithmetic as postselect uses it.  A number carries its  *)
(* type: "int" (Python int) or "int64" (numpy integer).                    *)
(***************************************************************************)
Num(t, v) == [t |-> t, v |-> v]

RECURSIVE SumOver(_, _)
SumOver(counts, keys) ==
    IF keys = {} THEN 0
    ELSE LET k == CHOOSE k \in keys : TRUE
         IN  counts[k] + SumOver(counts, keys \ {k})

\* sum(...) over the values of d at keys: Python's sum starts from int 0, so
\* the sum of nothing is a Python int and any other sum has the type of
\* the values.
PySum(d, keys) ==
    Num(IF keys = {} THEN "int" ELSE d.ctype, SumOver(d.counts, keys))

\* a / b.  Python ints raise ZeroDivisionError on a zero divisor; with a
\* numpy integer on either side the division is numpy's, which returns nan
\* (0/0) or inf (x/0) with a RuntimeWarning and raises nothing.
TrueDiv(a, b) ==
    IF b.v # 0 THEN [kind |-> "float", num |-> a.v, den |-> b.v]
    ELSE IF a.t = "int" /\ b.t = "int"
         THEN [kind |-> "ZeroDivisionError", num |-> a.v, den |-> 0]
    ELSE IF a.v = 0 THEN [kind |-> "nan", num |-> 0, den |-> 0]
    ELSE [kind |-> "inf", num |-> a.v, den |-> 0]

(***************************************************************************)
(* Postselection estimator.                                                *)
(***************************************************************************)
\* post_select: the keys whose first character is '0'.
post_select(d) == {state \in DOMAIN d.counts : state[1] = "0"}

\* A slip: the class is looked up among all results, not the postselected.
retrieve_class_all(d, postselection, binary_class) ==
    {state \in DOMAIN d.counts : state[Len(state)] = Str(binary_class)}

\* retrieve_class: the postselected keys whose last character is the class.
retrieve_class(d, postselection, binary_class) ==
    {state \in postselection : state[Len(state)] = Str(binary_class)}

\* What one call of postselect does: the values it computes, the lines it
\* prints (in order) and the exception it ends with ("none": it returns).
postselect(result_counts) ==
    LET total_samples == PySum(result_counts, DOMAIN result_counts.counts)
        postselection == post_select(result_counts)
        postselected_samples == PySum(result_counts, postselection)
        rate == TrueDiv(postselected_samples, total_samples)
        class0 == PySum(result_counts, retrieve_class(result_counts, postselection, 0))
        class1 == PySum(result_counts, retrieve_class(result_counts, postselection, 1))
        prob_class0 == TrueDiv(class0, postselected_samples)
        prob_class1 == TrueDiv(class1, postselected_samples)
        locals == [total_samples |-> total_samples.v,
                   postselected_samples |-> postselected_samples.v,
                   class0 |-> class0.v, class1 |-> class1.v]
    IN  IF rate.kind = "ZeroDivisionError"
        THEN [called |-> TRUE, locals |-> locals, printed |-> << >>,
              error |-> "ZeroDivisionError"]
        ELSE IF prob_class0.kind = "ZeroDivisionError"
                  \/ prob_class1.kind = "ZeroDivisionError"
        THEN [called |-> TRUE, locals |-> locals, printed |-> <<rate>>,
              error |-> "ZeroDivisionError"]
        ELSE [called |-> TRUE, locals |-> locals,
              printed |-> <<rate, prob_class0, prob_class1>>,
              error |-> "none"]

\* Before any call of postselect.
NoOutput ==
    [called |-> FALSE,
     locals |-> [total_samples |-> 0, postselected_samples |-> 0,
                 class0 |-> 0, class1 |-> 0],
     printed |-> << >>, error |-> "none"]

(***************************************************************************)
(* State.                                                                  *)
(***************************************************************************)
VARIABLES
    pc,                 \* <<step, k>>: the statement to run next, k the test instance
    error,              \* the exception that ended the run ("none": none)
    qvm_server,         \* "none", "running" or "terminated"
    quilc_server,       \* "none", "running" or "terminated"
    input,              \* UnitSpec: the amplitudes handed to get_angle
    test_angles,        \* << >> until assigned
    training_angle,     \* << >> until assigned, then <<angle>>
    angles,             \* << >> until assigned
    heap,               \* the Program objects, by reference (index)
    state_preparation,  \* state_preparation_0, state_preparation_1: references (0: unbound)
    circuit,            \* circuit_0, circuit_1: references (0: unbound)
    wfn,                \* the wavefunction the simulator returned
    executable,         \* what qc.compile returned
    register,           \* per shot, the basis state the register collapsed to
    measures,           \* per shot, the row of classical bits qc.run returned
    count,              \* the dict from outcome string to count
    out                 \* what the last call of postselect computed and printed

vars == <<pc, error, qvm_server, quilc_server, input, test_angles,
          training_angle, angles, heap, state_preparation, circuit, wfn,
          executable, register, measures, count, out>>

NoWfn == [amp |-> << >>, hcount |-> 0]
NoCount == [ctype |-> "int64", counts |-> << >>]

\* Everything but pc, input and count before the first statement runs.
Fresh ==
    /\ error = "none"
    /\ qvm_server = "none"
    /\ quilc_server = "none"
    /\ test_angles = << >>
    /\ training_angle = << >>
    /\ angles = << >>
    /\ heap = << >>
    /\ state_preparation = [k \in {0, 1} |-> 0]
    /\ circuit = [k \in {0, 1} |-> 0]
    /\ wfn = NoWfn
    /\ executable = Program
    /\ register = << >>
    /\ measures = << >>
    /\ out = NoOutput

Init ==
    /\ pc = <<"init", 0>>
    /\ input = << >>
    /\ count = NoCount
    /\ Fresh

(***************************************************************************)
(* The notebook's cells, in order.  An exception ends the run: the cells   *)
(* after the one that raised are not executed.                             *)
(***************************************************************************)
\* qvm_server, quilc_server, fc = init_qvm_and_quilc(...); qc = get_qc(...)
InitServers ==
    /\ pc = <<"init", 0>>
    /\ qvm_server' = "running"
    /\ quilc_server' = "running"
    /\ pc' = <<"angles", 0>>
    /\ UNCHANGED <<error, input, test_angles, training_angle, angles, heap,
                   state_preparation, circuit, wfn, executable, register,
                   measures, count, out>>

\* test_angles = [...]; training_angle = get_angle(training_set[1][0])
ComputeAngles ==
    /\ pc = <<"angles", 0>>
    /\ test_angles' = <<get_angle(test_set[1][1]), get_angle(test_set[2][1])>>
    /\ training_angle' = <<get_angle(training_set[2][1])>>
    /\ pc' = <<"prepare", 0>>
    /\ UNCHANGED <<error, qvm_server, quilc_server, input, angles, heap,
                   state_preparation, circuit, wfn, executable, register,
                   measures, count, out>>

\* angles = [test_angles[k], training_angle]
\* state_preparation_k = prepare_state(angles)
PrepareState(k) ==
    /\ pc = <<"prepare", k>>
    /\ angles' = <<test_angles[k + 1], training_angle[1]>>
    /\ heap' = Append(heap, prepare_state(angles'))
    /\ state_preparation' = [state_preparation EXCEPT ![k] = Len(heap) + 1]
    /\ pc' = IF k = 0 THEN <<"wavefunction", 0>> ELSE <<"interfere", 1>>
    /\ UNCHANGED <<error, qvm_server, quilc_server, input, test_angles,
                   training_angle, circuit, wfn, executable, register,
                   measures, count, out>>

\* wfn = WavefunctionSimulator(connection=fc).wavefunction(state_preparation_0)
WavefunctionCell ==
    /\ pc = <<"wavefunction", 0>>
    /\ wfn' = Wavefunction(heap[state_preparation[0]])
    /\ pc' = <<"interfere", 0>>
    /\ UNCHANGED <<error, qvm_server, quilc_server, input, test_angles,
                   training_angle, angles, heap, state_preparation, circuit,
                   executable, register, measures, count, out>>

\* circuit_k = interfere_data_and_test_instances(state_preparation_k, angles)
\* circuit_k.wrap_in_numshots_loop(1024)
Interfere(k) ==
    /\ pc = <<"interfere", k>>
    /\ LET ref == state_preparation[k]
       IN  /\ heap' = [heap EXCEPT ![ref] =
                          wrap_in_numshots_loop(
                              interfere_data_and_test_instances(heap[ref], angles),
                              Shots)]
           /\ circuit' = [circuit EXCEPT ![k] = ref]
    /\ pc' = <<"compile", k>>
    /\ UNCHANGED <<error, qvm_server, quilc_server, input, test_angles,
                   training_angle, angles, state_preparation, wfn, executable,
                   register, measures, count, out>>

\* executable = qc.compile(circuit_k)
Compile(k) ==
    /\ pc = <<"compile", k>>
    /\ executable' = heap[circuit[k]]
    /\ pc' = <<"run", k>>
    /\ UNCHANGED <<error, qvm_server, quilc_server, input, test_angles,
                   training_angle, angles, heap, state_preparation, circuit,
                   wfn, register, measures, count, out>>

\* qc.compile raises (the compiler rejects the program or cannot be reached).
CompileFails(k) ==
    /\ pc = <<"compile", k>>
    /\ error' = "CompilationError"
    /\ pc' = <<"aborted", k>>
    /\ UNCHANGED <<qvm_server, quilc_server, input, test_angles,
                   training_angle, angles, heap, state_preparation, circuit,
                   wfn, executable, register, measures, count, out>>

\* Position of a basis state in lexicographic order.
Rank(b) == 8 * b[1] + 4 * b[2] + 2 * b[3] + b[4]

\* measures = qc.run(executable): num_shots rows, every shot drawn from the
\* support of the program's final state.  The shots are listed in sorted
\* order: np.unique sorts the rows, so nothing later depends on the order
\* in which the shots came.
Run(k) ==
    /\ pc = <<"run", k>>
    /\ \E support \in {Support(Wavefunction(executable))} :
       \E bs \in [1 .. executable.num_shots -> support] :
           /\ \A s \in 1 .. Len(bs) - 1 : Rank(bs[s]) <= Rank(bs[s + 1])
           /\ register' = bs
           /\ measures' = [s \in 1 .. Len(bs) |-> Readout(executable, bs[s])]
    /\ pc' = <<"count", k>>
    /\ UNCHANGED <<error, qvm_server, quilc_server, input, test_angles,
                   training_angle, angles, heap, state_preparation, circuit,
                   wfn, executable, count, out>>

\* qc.run raises (the backend is unavailable).
RunFails(k) ==
    /\ pc = <<"run", k>>
    /\ error' = "ExecutionError"
    /\ pc' = <<"aborted", k>>
    /\ UNCHANGED <<qvm_server, quilc_server, input, test_angles,
                   training_angle, angles, heap, state_preparation, circuit,
                   wfn, executable, register, measures, count, out>>

\* count = np.unique(...); count = dict(zip(...))
Count(k) ==
    /\ pc = <<"count", k>>
    /\ count' = CountRows(measures)
    /\ pc' = <<"postselect", k>>
    /\ UNCHANGED <<error, qvm_server, quilc_server, input, test_angles,
                   training_angle, angles, heap, state_preparation, circuit,
                   wfn, executable, register, measures, out>>

\* postselect(count)
Postselect(k) ==
    /\ pc = <<"postselect", k>>
    /\ out' = postselect(count)
    /\ error' = out'.error
    /\ pc' = IF out'.error # "none" THEN <<"aborted", k>>
             ELSE IF k = 0 THEN <<"prepare", 1>>
             ELSE <<"terminate", 0>>
    /\ UNCHANGED <<qvm_server, quilc_server, input, test_angles,
                   training_angle, angles, heap, state_preparation, circuit,
                   wfn, executable, register, measures, count>>

\* qvm_server.terminate(); quilc_server.terminate()
Terminate ==
    /\ pc = <<"terminate", 0>>
    /\ qvm_server' = "terminated"
    /\ quilc_server' = "terminated"
    /\ pc' = <<"done", 0>>
    /\ UNCHANGED <<error, input, test_angles, training_angle, angles, heap,
                   state_preparation, circuit, wfn, executable, register,
                   measures, count, out>>

Next ==
    \/ InitServers
    \/ ComputeAngles
    \/ \E k \in {0, 1} : PrepareState(k)
    \/ WavefunctionCell
    \/ \E k \in {0, 1} : Interfere(k)
    \/ \E k \in {0, 1} : Compile(k)
    \/ \E k \in {0, 1} : CompileFails(k)
    \/ \E k \in {0, 1} : Run(k)
    \/ \E k \in {0, 1} : RunFails(k)
    \/ \E k \in {0, 1} : Count(k)
    \/ \E k \in {0, 1} : Postselect(k)
    \/ Terminate

Spec == Init /\ [][Next]_vars

\* The run has ended: no cell is left to execute.
SessionEnded == pc[1] \in {"done", "aborted"}

(***************************************************************************)
(* UnitSpec: the notebook's functions applied to inputs drawn from bounded *)
(* sets, one call after the other.                                         *)
(***************************************************************************)
\* The 4-character outcome strings.
OutcomeStrings == {RowString(b) : b \in Basis}

\* The key sets of the outcome mappings: at most MaxKeys strings.
KeySets == {K \in SUBSET OutcomeStrings : Cardinality(K) <= MaxKeys}

\* The types a mapping's counts can have: Python ints or numpy integers.
CountTypes == {"int", "int64"}

\* Amplitudes handed to get_angle: the notebook's, the ends of the domain,
\* and values outside it.
AmpInputs ==
    {test_set[1][1], test_set[2][1], training_set[2][1], 0, Scale, -Scale,
     -Scale - 2000, Scale + 5000}

UnitInit ==
    /\ Fresh
    /\ \/ /\ pc = <<"unit_postselect", 0>>
          /\ input = << >>
          \* every mapping on a key set, each count in 0..MaxCount
          /\ \E K \in KeySets : \E f \in [K -> 0 .. MaxCount] :
             \E t \in CountTypes : count = [ctype |-> t, counts |-> f]
       \/ /\ pc = <<"unit_get_angle", 0>>
          /\ input \in AmpInputs \X AmpInputs
          /\ count = NoCount

\* postselect(count)
UnitPostselect ==
    /\ pc = <<"unit_postselect", 0>>
    /\ out' = postselect(count)
    /\ error' = out'.error
    /\ pc' = <<"unit_done", 0>>
    /\ UNCHANGED <<qvm_server, quilc_server, input, test_angles,
                   training_angle, angles, heap, state_preparation, circuit,
                   wfn, executable, register, measures, count>>

\* angles = [get_angle(input[0]), get_angle(input[1])]
UnitGetAngle ==
    /\ pc = <<"unit_get_angle", 0>>
    /\ angles' = <<get_angle(input[1]), get_angle(input[2])>>
    /\ pc' = <<"unit_prepare", 0>>
    /\ UNCHANGED <<error, qvm_server, quilc_server, input, test_angles,
                   training_angle, heap, state_preparation, circuit, wfn,
                   executable, register, measures, count, out>>

\* state_preparation_0 = prepare_state(angles)
UnitPrepareState ==
    /\ pc = <<"unit_prepare", 0>>
    /\ heap' = Append(heap, prepare_state(angles))
    /\ state_preparation' = [state_preparation EXCEPT ![0] = Len(heap) + 1]
    /\ pc' = <<"unit_interfere", 0>>
    /\ UNCHANGED <<error, qvm_server, quilc_server, input, test_angles,
                   training_angle, angles, circuit, wfn, executable, register,
                   measures, count, out>>

\* circuit_0 = interfere_data_and_test_instances(state_preparation_0, angles),
\* or the same call once more on the object circuit_0 names.  pc[2] counts
\* the calls made.  Nothing in the function or in Program.declare looks at
\* what the program already holds, so no call raises.
UnitInterfere ==
    /\ pc[1] = "unit_interfere"
    /\ pc[2] < MaxCalls
    /\ LET ref == IF pc[2] = 0 THEN state_preparation[0] ELSE circuit[0]
       IN  /\ heap' = [heap EXCEPT ![ref] =
                          interfere_data_and_test_instances(heap[ref], angles)]
           /\ circuit' = [circuit EXCEPT ![0] = ref]
    /\ pc' = <<"unit_interfere", pc[2] + 1>>
    /\ UNCHANGED <<error, qvm_server, quilc_server, input, test_angles,
                   training_angle, angles, state_preparation, wfn, executable,
                   register, measures, count, out>>

\* executable = qc.compile(circuit_0); measures = qc.run(executable), for a
\* circuit the stage was applied to once and whose angles are numbers.  No
\* wrap_in_numshots_loop: the program runs its one shot.
UnitRun ==
    /\ pc = <<"unit_interfere", 1>>
    /\ ~angles[1].nan /\ ~angles[2].nan
    /\ executable' = heap[circuit[0]]
    /\ \E support \in {Support(Wavefunction(executable'))} :
       \E bs \in [1 .. executable'.num_shots -> support] :
           /\ register' = bs
           /\ measures' = [s \in 1 .. Len(bs) |-> Readout(executable', bs[s])]
    /\ pc' = <<"unit_done", 0>>
    /\ UNCHANGED <<error, qvm_server, quilc_server, input, test_angles,
                   training_angle, angles, heap, state_preparation, circuit,
                   wfn, count, out>>

UnitNext ==
    \/ UnitPostselect
    \/ UnitGetAngle
    \/ UnitPrepareState
    \/ UnitInterfere
    \/ UnitRun

UnitSpec == UnitInit /\ [][UnitNext]_vars

(***************************************************************************)
(* Properties.                                                             *)
(***************************************************************************)
ServersTerminated ==
    qvm_server = "terminated" /\ quilc_server = "terminated"

\* C1: once the servers are started they are terminated on every path: when
\* the run has ended, also by an exception in compile, run or postselect,
\* both terminate() calls have been made.
C1_ServersTerminatedWhenSessionEnds ==
    (SessionEnded /\ qvm_server # "none") => ServersTerminated

\* The float a printed line shows, as numerator and denominator.
IsFloat(x) == x.kind = "float"

\* C2: whenever the outcomes with ancilla bit 0 have a positive total count,
\* postselect returns and the two class probabilities it prints sum to 1:
\* the counts of class bit 0 and of class bit 1 within the postselected
\* subset add up to postselected_samples.
C2_ClassProbabilitiesSumToOne ==
    (out.called /\ out.locals.postselected_samples > 0) =>
        /\ out.error = "none"
        /\ Len(out.printed) = 3
        /\ IsFloat(out.printed[2]) /\ IsFloat(out.printed[3])
        /\ out.printed[2].den = out.locals.postselected_samples
        /\ out.printed[3].den = out.locals.postselected_samples
        /\ out.printed[2].num + out.printed[3].num = out.locals.postselected_samples
        /\ out.printed[2].num >= 0 /\ out.printed[3].num >= 0

\* C2 witness: a mapping with both classes among the postselected outcomes
\* and an outcome that postselection removes.
C2_Witness ==
    /\ pc = <<"unit_done", 0>>
    /\ out.called
    /\ out.locals.class0 > 0
    /\ out.locals.class1 > 0
    /\ out.locals.total_samples > out.locals.postselected_samples

\* C3: when no outcome with ancilla bit 0 has a positive count while the
\* total is positive, postselect ends with an error and has printed no
\* class probability.
C3_NoPostselectedSamplesRaises ==
    (out.called /\ out.locals.total_samples > 0
                /\ out.locals.postselected_samples = 0) =>
        /\ out.error # "none"
        /\ Len(out.printed) <= 1

\* C4: when the total of all counts is 0, postselect ends with an error
\* before it has printed anything.
C4_EmptyInputRaisesBeforeReporting ==
    (out.called /\ out.locals.total_samples = 0) =>
        /\ out.error # "none"
        /\ out.printed = << >>

\* C5: the mapping built from a run counts every shot exactly once under its
\* 4-character string, so its counts total the configured number of shots,
\* and postselect finds 0 <= postselected_samples <= total_samples = shots.
C5_CountsTotalTheShots ==
    /\ pc[1] = "postselect" =>
          /\ Len(measures) = Shots
          /\ \A s \in 1 .. Len(measures) :
                RowString(measures[s]) \in DOMAIN count.counts
          /\ \A state \in DOMAIN count.counts : Len(state) = 4
          /\ SumOver(count.counts, DOMAIN count.counts) = Shots
    /\ out.called =>
          /\ out.locals.total_samples = Shots
          /\ 0 <= out.locals.postselected_samples
          /\ out.locals.postselected_samples <= out.locals.total_samples

\* C5 witness: the second test instance has been postselected, some shots
\* kept and some removed, one outcome seen more than once.
C5_Witness ==
    /\ pc = <<"terminate", 0>>
    /\ out.called
    /\ 0 < out.locals.postselected_samples
    /\ out.locals.postselected_samples < out.locals.total_samples
    /\ \E state \in DOMAIN count.counts : count.counts[state] > 1

\* The instruction list C6 describes, written out gate by gate.
ExpectedPreparation(a) ==
    << [op |-> "H", params |-> << >>, qubits |-> <<ancilla_qubit>>, ro |-> -1],
       [op |-> "H", params |-> << >>, qubits |-> <<index_qubit>>, ro |-> -1],
       [op |-> "CRY", params |-> <<a[1]>>,
        qubits |-> <<ancilla_qubit, data_qubit>>, ro |-> -1],
       [op |-> "X", params |-> << >>, qubits |-> <<ancilla_qubit>>, ro |-> -1],
       [op |-> "CCNOT", params |-> << >>,
        qubits |-> <<ancilla_qubit, index_qubit, data_qubit>>, ro |-> -1],
       [op |-> "X", params |-> << >>, qubits |-> <<index_qubit>>, ro |-> -1],
       [op |-> "CCRY", params |-> <<a[2]>>,
        qubits |-> <<ancilla_qubit, index_qubit, data_qubit>>, ro |-> -1],
       [op |-> "CNOT", params |-> << >>,
        qubits |-> <<index_qubit, class_qubit>>, ro |-> -1] >>

\* C6: for every pair of angles the circuit prepare_state returns holds
\* exactly: H on ancilla, H on index, CRY(theta_test) ancilla -> data,
\* X on ancilla, CCNOT ancilla, index -> data, X on index,
\* CCRY(theta_train) ancilla, index -> data, CNOT index -> class; it holds
\* no measurement and nothing has been compiled, simulated or run.
C6_PreparedGateSequence ==
    pc = <<"unit_interfere", 0>> =>
        LET p == heap[state_preparation[0]]
        IN  /\ p.instructions = ExpectedPreparation(angles)
            /\ \A i \in 1 .. Len(p.instructions) :
                  p.instructions[i].op \notin {"MEASURE", "DECLARE"}
            /\ executable = Program
            /\ wfn = NoWfn
            /\ measures = << >>

\* C6 witness: prepare_state has returned for two different, defined angles.
C6_Witness ==
    /\ pc = <<"unit_interfere", 0>>
    /\ ~angles[1].nan /\ ~angles[2].nan
    /\ angles[1] # angles[2]

\* The shots in which the register showed ancilla a (and class c).
ShotsWithAncilla(a) ==
    {s \in 1 .. Len(register) : register[s][ancilla_qubit + 1] = a}
ShotsWithAncillaClass(a, c) ==
    {s \in ShotsWithAncilla(a) : register[s][class_qubit + 1] = c}

\* C7: in every outcome string of a run the first character is the measured
\* value of the ancilla qubit of prepare_state, which is the qubit the
\* interference stage puts the Hadamard on, and the last character is the
\* measured value of the class qubit; so postselect keeps exactly the shots
\* whose ancilla was 0 and splits them by the class qubit.
C7_BitPositionsConsistent ==
    /\ \A s \in 1 .. Len(measures) :
          LET state == RowString(measures[s])
          IN  /\ state[1] = Str(register[s][ancilla_qubit + 1])
              /\ state[Len(state)] = Str(register[s][class_qubit + 1])
    /\ \A k \in {0, 1} :
          circuit[k] # 0 =>
              \E i \in 1 .. Len(heap[circuit[k]].instructions) :
                  /\ heap[circuit[k]].instructions[i] = H(ancilla_qubit)
                  /\ i > Len(ExpectedPreparation(angles))
    /\ pc[1] = "postselect" =>
          LET postselection == post_select(count)
          IN  /\ SumOver(count.counts, postselection)
                    = Cardinality(ShotsWithAncilla(0))
              /\ \A c \in {0, 1} :
                    SumOver(count.counts, retrieve_class(count, postselection, c))
                        = Cardinality(ShotsWithAncillaClass(0, c))

\* C7 witness: a run of the second instance with both ancilla values among
\* its shots and a shot whose ancilla and class qubits differ.
C7_Witness ==
    /\ pc = <<"postselect", 1>>
    /\ ShotsWithAncilla(0) # {}
    /\ ShotsWithAncilla(1) # {}
    /\ \E s \in 1 .. Len(register) :
          register[s][ancilla_qubit + 1] # register[s][class_qubit + 1]

\* The basis state with the given values of the four roles.
BasisState(a, i, d, c) ==
    [p \in 1 .. 4 |->
        IF p = ancilla_qubit + 1 THEN a
        ELSE IF p = index_qubit + 1 THEN i
        ELSE IF p = data_qubit + 1 THEN d
        ELSE c]

\* The state prepare_state produced for the instance about to be interfered:
\* the simulator's answer for instance 0, the same computation for instance 1.
PreparedState ==
    IF pc[2] = 0 THEN wfn ELSE Wavefunction(heap[state_preparation[1]])

\* C8 as amended: the prepared state has amplitude 0 on ancilla=1, index=0,
\* data=0, class=0 and amplitude 1/2 on ancilla=1, index=0, data=1, class=0
\* (amp = Scale after two Hadamards is Scale / (Scale * sqrt(2)^2) = 1/2).
C8_TrainingVectorOneAmplitudes ==
    pc[1] = "interfere" =>
        /\ PreparedState.hcount = 2
        /\ PreparedState.amp[BasisState(1, 0, 0, 0)] = 0
        /\ PreparedState.amp[BasisState(1, 0, 1, 0)] = Scale

\* C8 as claimed: amplitude 0 on ancilla=1, index=0, data=1, class=0 and a
\* nonzero amplitude (about 0.5) on ancilla=1, index=0, data=0, class=0.
C8_AsClaimed ==
    pc[1] = "interfere" =>
        /\ PreparedState.amp[BasisState(1, 0, 1, 0)] = 0
        /\ PreparedState.amp[BasisState(1, 0, 0, 0)] # 0

\* C8 witness: the second instance's state has been prepared (and the
\* simulator has answered for the first).
C8_Witness ==
    /\ pc = <<"interfere", 1>>
    /\ wfn.hcount = 2

RECURSIVE SumSquares(_, _)
SumSquares(amp, S) ==
    IF S = {} THEN 0
    ELSE LET b == CHOOSE b \in S : TRUE
         IN  amp[b] * amp[b] + SumSquares(amp, S \ {b})

\* The weight (unnormalised probability) of ancilla = 0 with class = c.
ClassWeight(w, c) ==
    SumSquares(w.amp, {b \in Basis : b[ancilla_qubit + 1] = 0
                                      /\ b[class_qubit + 1] = c})

\* |x + m|^2 and |x - m|^2 in fixed point.
NormPlus(x, m) ==
    (x[1] + m[1]) * (x[1] + m[1]) + (x[2] + m[2]) * (x[2] + m[2])
NormMinus(x, m) ==
    (x[1] - m[1]) * (x[1] - m[1]) + (x[2] - m[2]) * (x[2] - m[2])

\* 0.1% of the largest weight, 4 * Scale^2.
KernelTol == 4 * Scale * (Scale \div 1000)

\* The distribution the second instance's executable is sampled from.
KernelWeighting ==
    LET w == Wavefunction(executable)
        encoded == <<angles[1].cos_half, angles[1].sin_half>>
    IN  \A m \in 1 .. 2 :
            \* exactly |x + x_m|^2 for the test vector as encoded,
            /\ ClassWeight(w, labels[m]) = NormPlus(encoded, training_set[m])
            \* and, within tolerance, for the test vector as given,
            /\ Abs(ClassWeight(w, labels[m])
                     - NormPlus(test_set[2], training_set[m])) <= KernelTol
            \* which is 4 * (1 - |x - x_m|^2 / 4).
            /\ Abs(ClassWeight(w, labels[m])
                     - (4 * Scale * Scale - NormMinus(test_set[2], training_set[m])))
                  <= KernelTol

\* C9 as amended: for test vector [0.053, 0.999] the probability of class
\* labels[m] after postselecting ancilla = 0 is weighted by |x + x_m|^2 =
\* 4 (1 - |x - x_m|^2 / 4), and class 0 has the larger probability.
C9_KernelWeightingClass0 ==
    pc = <<"run", 1>> =>
        /\ KernelWeighting
        /\ ClassWeight(Wavefunction(executable), 0)
              > ClassWeight(Wavefunction(executable), 1)

\* C9 as claimed: the same weighting, and class 1 has the larger probability.
C9_AsClaimed ==
    pc = <<"run", 1>> =>
        /\ KernelWeighting
        /\ ClassWeight(Wavefunction(executable), 1)
              > ClassWeight(Wavefunction(executable), 0)

\* C9 witness: the second instance's circuit has been compiled and is about
\* to be sampled.
C9_Witness ==
    /\ pc = <<"run", 1>>
    /\ executable = heap[circuit[1]]
    /\ angles[1] = get_angle(test_set[2][1])

\* C10: for an amplitude outside [-1, 1] get_angle ends with an error; no
\* value it returned is kept or handed to prepare_state.
C10_GetAngleRejectsOutOfDomain ==
    (pc[1] \in {"unit_prepare", "unit_interfere"}
        /\ \E i \in 1 .. Len(input) : ~InDomain(input[i])) =>
        /\ error # "none"
        /\ angles = << >>
        /\ heap = << >>

\* What one call of the interference stage adds after the DECLARE, written
\* out: one Hadamard on the ancilla, then qubits 0..3 read into ro[0..3].
ExpectedStage ==
    << [op |-> "H", params |-> << >>, qubits |-> <<ancilla_qubit>>, ro |-> -1],
       [op |-> "MEASURE", params |-> << >>, qubits |-> <<0>>, ro |-> 0],
       [op |-> "MEASURE", params |-> << >>, qubits |-> <<1>>, ro |-> 1],
       [op |-> "MEASURE", params |-> << >>, qubits |-> <<2>>, ro |-> 2],
       [op |-> "MEASURE", params |-> << >>, qubits |-> <<3>>, ro |-> 3] >>

RECURSIVE Repeat(_, _)
\* n copies of the sequence s, one after the other.
Repeat(s, n) == IF n = 0 THEN << >> ELSE s \o Repeat(s, n - 1)

\* The gates and measurements of a program, in order (declarations apart).
IsOperation(g) == g.op # "DECLARE"
Operations(p) == SelectSeq(p.instructions, IsOperation)

\* The Hadamards on the ancilla that follow the state preparation.
StageHadamards(p) ==
    {i \in 1 .. Len(Operations(p)) :
        /\ i > Len(ExpectedPreparation(angles))
        /\ Operations(p)[i].op = "H"
        /\ Operations(p)[i].qubits = <<ancilla_qubit>>}

\* C11: every call of interfere_data_and_test_instances appends, after all
\* that the circuit holds, exactly one Hadamard on the ancilla and then the
\* measurements of qubits 0..3 into ro[0..3] in that order; no call is
\* guarded, so after n calls on the same circuit none has raised and the
\* circuit holds the stage n times, with n Hadamards on the ancilla.
C11_EachCallAppendsOneStage ==
    pc[1] = "unit_interfere" =>
        LET p == heap[state_preparation[0]]
            n == pc[2]
        IN  /\ error = "none"
            /\ Operations(p) = ExpectedPreparation(angles) \o Repeat(ExpectedStage, n)
            /\ Cardinality(StageHadamards(p)) = n
            /\ \A i \in 1 .. Len(Operations(p)) :
                  (i > Len(ExpectedPreparation(angles)) /\ Operations(p)[i].op # "MEASURE")
                      => Operations(p)[i].qubits = <<ancilla_qubit>>
            /\ n > 0 => circuit[0] = state_preparation[0]

\* C11 witness: the stage has been applied twice to the same circuit.
C11_Witness ==
    /\ pc = <<"unit_interfere", 2>>
    /\ circuit[0] = state_preparation[0]
    /\ Cardinality(StageHadamards(heap[circuit[0]])) = 2
    /\ ~angles[1].nan /\ ~angles[2].nan

\* C12: for each test instance the state-preparation circuit and the
\* interference circuit are two distinct objects, and building the
\* interference circuit leaves the state-preparation circuit as prepare_state
\* returned it: eight instructions ending with the class flip
\* CNOT(index, class), its one Hadamard on the ancilla, no measurement.
C12_StatePreparationUnchanged ==
    \A k \in {0, 1} :
        circuit[k] # 0 =>
            /\ circuit[k] # state_preparation[k]
            /\ LET p == heap[state_preparation[k]]
               IN  /\ Len(p.instructions) = Len(ExpectedPreparation(angles))
                   /\ p.instructions[Len(p.instructions)]
                         = [op |-> "CNOT", params |-> << >>,
                            qubits |-> <<index_qubit, class_qubit>>, ro |-> -1]
                   /\ \A i \in 1 .. Len(p.instructions) :
                         p.instructions[i].op # "MEASURE"
                   /\ Cardinality({i \in 1 .. Len(p.instructions) :
                                      /\ p.instructions[i].op = "H"
                                      /\ p.instructions[i].qubits = <<ancilla_qubit>>}) = 1

\* The weight (unnormalised probability) of index = i with class = c.
IndexClassWeight(w, i, c) ==
    SumSquares(w.amp, {b \in Basis : b[index_qubit + 1] = i
                                      /\ b[class_qubit + 1] = c})

\* Every basis state with a nonzero amplitude has class bit = index bit.
ClassFollowsIndex(w) ==
    \A b \in Support(w) : b[class_qubit + 1] = b[index_qubit + 1]

\* C13: for every pair of angles, every basis state with a nonzero amplitude
\* after prepare_state has its class bit equal to its index bit; the
\* Hadamard and the measurements of the interference stage leave the index
\* and class qubits as they are (their joint distribution is the one
\* prepare_state produced: each Hadamard doubles every unnormalised weight),
\* and so in every outcome a run of the interference circuit returns the
\* class bit equals the index bit.
C13_ClassBitEqualsIndexBit ==
    /\ (pc = <<"unit_interfere", 0>> /\ ~angles[1].nan /\ ~angles[2].nan) =>
          ClassFollowsIndex(Wavefunction(heap[state_preparation[0]]))
    /\ (pc = <<"unit_interfere", 1>> /\ ~angles[1].nan /\ ~angles[2].nan) =>
          LET before == Wavefunction(prepare_state(angles))
              after == Wavefunction(heap[circuit[0]])
          IN  /\ ClassFollowsIndex(after)
              /\ after.hcount = before.hcount + 1
              /\ \A i \in {0, 1} : \A c \in {0, 1} :
                    IndexClassWeight(after, i, c) = 2 * IndexClassWeight(before, i, c)
    /\ measures # << >> =>
          \A s \in 1 .. Len(measures) :
              LET state == RowString(measures[s])
              IN  /\ Len(state) = 4
                  /\ state[class_qubit + 1] = state[index_qubit + 1]
                  /\ state[index_qubit + 1] = Str(register[s][index_qubit + 1])
                  /\ state[class_qubit + 1] = Str(register[s][class_qubit + 1])

\* C13 witness: a circuit built from two different angles has been run; its
\* final state has both index values in its support, and the shot returned
\* index = class = 1 with the data bit different from them.
C13_Witness ==
    /\ pc = <<"unit_done", 0>>
    /\ measures # << >>
    /\ angles[1] # angles[2]
    /\ {b[index_qubit + 1] : b \in Support(Wavefunction(executable))} = {0, 1}
    /\ measures[1][index_qubit + 1] = 1
    /\ measures[1][class_qubit + 1] = 1
    /\ measures[1][data_qubit + 1] = 0

=============================================================================
